---- MODULE Spec2Model ----
(***************************************************************************)
(* Tag reconciliation (UpdateTags) of the provider, modelled from          *)
(* src/internal/service/firehose/status.go.  One invocation of UpdateTags  *)
(* is followed through its two remote calls; the remote resource's tags    *)
(* are part of the state.                                                  *)
(***************************************************************************)
EXTENDS Integers, Sequences, FiniteSets, TLC

\* ---------------------------------------------------------------- bounds
NumKeys == 3
NumValues == 2

\* number of keys changed on the remote resource behind the caller's back,
\* that is, on which the remote tags may differ from old when the call is made
MaxDrift == 0

\* ------------------------------------------------------------ input sets
\* Tag keys are character sequences, so that a prefix test is computed.
KeyPool ==
  << <<"e","n","v">>,
     <<"a","w","s",":","c","f">>,
     <<"t","e","a","m">>,
     <<"a","w","s">>,
     <<"a","w","s",":","x">> >>

ValuePool == << "", "dev", "prod", "x", "y" >>

Keys == {KeyPool[i] : i \in 1..NumKeys}

Values == {ValuePool[i] : i \in 1..NumValues}

Identifiers == {"arn:a"}

\* the identifier slot while no invocation is running
NoIdentifier == ""

\* errors a remote call can return
RemoteErrors == {"ThrottlingException"}

\* a tag map: a function from a set of keys to values
TagMaps == UNION {[S -> Values] : S \in SUBSET Keys}

EmptyTags == [k \in {} |-> ""]

\* m and n agree on key k: both lack it, or both hold the same value
AgreeOn(m, n, k) ==
  /\ (k \in DOMAIN m) <=> (k \in DOMAIN n)
  /\ k \in DOMAIN m => m[k] = n[k]

\* the number of keys on which m and n differ
Drift(m, n) == Cardinality({k \in Keys : ~AgreeOn(m, n, k)})

\* the nil error value returned by UpdateTags
NoError == [msg |-> <<>>, wrapped |-> "nil"]

\* ------------------------------------------------- tftags.KeyValueTags
\* tftags.New: a fresh KeyValueTags holding the entries of the given map
New(m) == [k \in DOMAIN m |-> m[k]]

\* KeyValueTags.Removed: the entries of tags whose key is not in newTags
Removed(tags, newTags) ==
  [k \in {x \in DOMAIN tags : x \notin DOMAIN newTags} |-> tags[k]]

\* KeyValueTags.Updated: the entries of newTags that are new or whose value differs
Updated(tags, newTags) ==
  [k \in {x \in DOMAIN newTags : x \notin DOMAIN tags \/ tags[x] # newTags[x]}
     |-> newTags[k]]

AwsTagKeyPrefix == <<"a","w","s",":">>

HasPrefix(s, prefix) ==
  /\ Len(s) >= Len(prefix)
  /\ SubSeq(s, 1, Len(prefix)) = prefix

\* KeyValueTags.IgnoreAws: the filtered view without the reserved key prefix
IgnoreAws(tags) ==
  [k \in {x \in DOMAIN tags : ~HasPrefix(x, AwsTagKeyPrefix)} |-> tags[k]]

\* KeyValueTags.Keys (order of the slice is not modelled)
KeysOf(tags) == DOMAIN tags

\* len(tags)
LenTags(tags) == Cardinality(DOMAIN tags)

\* ------------------------------------------------------------ status.go
\* mutant: tags with an empty value are left out of the list
Tags_DropEmpty(tags) ==
  {[Key |-> k, Value |-> tags[k]] : k \in {x \in DOMAIN tags : tags[x] # ""}}

\* Tags: the []*Tag list of a KeyValueTags (one Key/Value entry per key)
Tags(tags) == {[Key |-> k, Value |-> tags[k]] : k \in DOMAIN tags}

\* mutant: receiver and argument of Removed exchanged
HasRemoved_Swapped(old, new) == LenTags(Removed(new, old)) > 0

\* removedTags := oldTags.Removed(newTags); len(removedTags) > 0
HasRemoved(old, new) == LenTags(Removed(old, new)) > 0

\* mutant: the keys added, not the keys removed
UntagTagKeys_Swapped(old, new) == KeysOf(IgnoreAws(Removed(new, old)))

\* mutant: the removed keys without the IgnoreAws filter
UntagTagKeys_NoFilter(old, new) == KeysOf(Removed(old, new))

\* UntagResourceInput.TagKeys
UntagTagKeys(old, new) == KeysOf(IgnoreAws(Removed(old, new)))

\* mutant: any tag of new counts as an update
HasUpdated_Any(old, new) == LenTags(new) > 0

\* updatedTags := oldTags.Updated(newTags); len(updatedTags) > 0
HasUpdated(old, new) == LenTags(Updated(old, new)) > 0

\* mutant: all tags of new are sent, not only the updated ones
TagInputTags_All(old, new) == Tags(IgnoreAws(new))

\* TagResourceInput.Tags
TagInputTags(old, new) == Tags(IgnoreAws(Updated(old, new)))

\* fmt.Errorf("error untagging resource (%s): %w", identifier, err)
UntagError(id, e) ==
  [msg |-> <<"error untagging resource (", id, "): ", e>>, wrapped |-> e]

\* mutant: the tag phase reports with the untag phase's message
TagError_WrongPhase(id, e) ==
  [msg |-> <<"error untagging resource (", id, "): ", e>>, wrapped |-> e]

\* fmt.Errorf("error tagging resource (%s): %w", identifier, err)
TagError(id, e) ==
  [msg |-> <<"error tagging resource (", id, "): ", e>>, wrapped |-> e]

\* --------------------------------------------------------- remote tag API
\* UntagResource on the service: the given keys are dropped
RemoteUntag(r, keys) == [k \in DOMAIN r \ keys |-> r[k]]

\* TagResource on the service: the given tags are set, the others kept
RemoteTag(r, tagList) ==
  [k \in DOMAIN r \cup {t.Key : t \in tagList} |->
     IF \E t \in tagList : t.Key = k
       THEN (CHOOSE t \in tagList : t.Key = k).Value
       ELSE r[k]]

\* ======================================================= status polling
\* bounds of the wait configurations (time in poll ticks)
MaxDelay == 1
MaxInterval == 2
MaxTimeout == 3

\* a nil *string
NilString == "<nil>"

\* aws.StringValue: the string a pointer holds, "" for a nil pointer
StringValue(p) == IF p = NilString THEN "" ELSE p

\* the absent snapshot (a nil interface{})
Absent == [absent |-> TRUE]

\* errors a finder can return besides nil; the first is the not-found error
FinderErrors == {"NotFoundError", "ThrottlingException", "AccessDeniedException"}

\* tfresource.NotFound: the error is the not-found error
NotFound(e) == e = "NotFoundError"

\* what finder.FindDeliveryStreamByName can return
DeliveryStreamResults ==
  {[output |-> [DeliveryStreamName |-> "stream",
                DeliveryStreamStatus |-> st], err |-> "nil"] :
     st \in {"CREATING", "ACTIVE", "CREATING_FAILED", NilString}}
  \cup {[output |-> Absent, err |-> e] : e \in FinderErrors}

\* what finder.FindDeliveryStreamEncryptionConfigurationByName can return
EncryptionConfigurationResults ==
  {[output |-> [KeyType |-> "AWS_OWNED_CMK", Status |-> st], err |-> "nil"] :
     st \in {"ENABLING", "ENABLED", "ENABLING_FAILED", NilString}}
  \cup {[output |-> Absent, err |-> e] : e \in FinderErrors}

\* mutant: a not-found is handed on as an error
statusDeliveryStream_NotFoundIsError(found) ==
  IF found.err # "nil"
    THEN [snapshot |-> Absent, status |-> "", err |-> found.err]
    ELSE [snapshot |-> found.output,
          status |-> StringValue(found.output.DeliveryStreamStatus),
          err |-> "nil"]

\* mutant: every finder error is taken for a not-found
statusDeliveryStream_ErrorSwallowed(found) ==
  IF found.err # "nil"
    THEN [snapshot |-> Absent, status |-> "", err |-> "nil"]
    ELSE [snapshot |-> found.output,
          status |-> StringValue(found.output.DeliveryStreamStatus),
          err |-> "nil"]

\* statusDeliveryStream: the refresh function applied to the finder's result
statusDeliveryStream(found) ==
  IF NotFound(found.err)
    THEN [snapshot |-> Absent, status |-> "", err |-> "nil"]
    ELSE IF found.err # "nil"
      THEN [snapshot |-> Absent, status |-> "", err |-> found.err]
      ELSE [snapshot |-> found.output,
            status |-> StringValue(found.output.DeliveryStreamStatus),
            err |-> "nil"]

\* statusDeliveryStreamEncryptionConfiguration, likewise
statusDeliveryStreamEncryptionConfiguration(found) ==
  IF NotFound(found.err)
    THEN [snapshot |-> Absent, status |-> "", err |-> "nil"]
    ELSE IF found.err # "nil"
      THEN [snapshot |-> Absent, status |-> "", err |-> found.err]
      ELSE [snapshot |-> found.output,
            status |-> StringValue(found.output.Status),
            err |-> "nil"]

\* the two probes with what their finder can return and the labels waited for
Probes == {"DeliveryStream", "EncryptionConfiguration"}

FinderResults(probe) ==
  IF probe = "DeliveryStream" THEN DeliveryStreamResults
                              ELSE EncryptionConfigurationResults

Refresh(probe, found) ==
  IF probe = "DeliveryStream"
    THEN statusDeliveryStream(found)
    ELSE statusDeliveryStreamEncryptionConfiguration(found)

TargetOf(probe) ==
  IF probe = "DeliveryStream" THEN {"ACTIVE"} ELSE {"ENABLED"}

FailureOf(probe) ==
  IF probe = "DeliveryStream" THEN {"CREATING_FAILED"} ELSE {"ENABLING_FAILED"}

\* the wait configurations: a minimum delay is never longer than the whole wait
WaitConfigs ==
  {c \in [probe : Probes, delay : 0..MaxDelay, interval : 1..MaxInterval,
          timeout : 1..MaxTimeout] : c.delay <= c.timeout}

NoConfig == [probe |-> "DeliveryStream", delay |-> 0, interval |-> 1, timeout |-> 1]

NoResult == [snapshot |-> Absent, status |-> "", err |-> "nil"]

VARIABLES
  ppc,        \* position of the poller: "idle", "delay", "probe", "sleep", "done"
  pconf,      \* the configuration of the wait
  pstate,     \* "Pending", "Target", "Failed", "TimedOut"
  elapsed,    \* time since the wait began
  probeLog,   \* the probe invocations of the wait: finder result and probe result
  presult     \* what the poller returns: snapshot, status label, error

pollVars == <<ppc, pconf, pstate, elapsed, probeLog, presult>>

PollIdle ==
  /\ ppc = "idle"
  /\ pconf = NoConfig
  /\ pstate = "Pending"
  /\ elapsed = 0
  /\ probeLog = <<>>
  /\ presult = NoResult

\* mutant: the deadline is noticed one poll late
Classify_LateDeadline(conf, r, t) ==
  IF r.err # "nil" THEN "Failed"
  ELSE IF r.status \in TargetOf(conf.probe) THEN "Target"
  ELSE IF r.status \in FailureOf(conf.probe) THEN "Failed"
  ELSE IF t >= conf.timeout + conf.interval + 1 THEN "TimedOut"
  ELSE "Pending"

\* mutant: a failure label is not terminal
Classify_FailureIgnored(conf, r, t) ==
  IF r.err # "nil" THEN "Failed"
  ELSE IF r.status \in TargetOf(conf.probe) THEN "Target"
  ELSE IF t >= conf.timeout THEN "TimedOut"
  ELSE "Pending"

\* mutant: a target label has to be seen twice, the first one counts as pending
Classify_TargetIgnored(conf, r, t) ==
  IF r.err # "nil" THEN "Failed"
  ELSE IF r.status \in FailureOf(conf.probe) THEN "Failed"
  ELSE IF t >= conf.timeout THEN "TimedOut"
  ELSE "Pending"

\* the poller's state after a probe returned r at time t
Classify(conf, r, t) ==
  IF r.err # "nil" THEN "Failed"
  ELSE IF r.status \in TargetOf(conf.probe) THEN "Target"
  ELSE IF r.status \in FailureOf(conf.probe) THEN "Failed"
  ELSE IF t >= conf.timeout THEN "TimedOut"
  ELSE "Pending"

\* ==================================================== resource handlers
\* an AWS error: code and message (a sequence of phrases); the nil error
NilErr == [code |-> "nil", msg |-> <<>>]

\* strings.Contains on phrase sequences
Contains(msg, sub) ==
  \E i \in 1..(Len(msg) + 1) :
    /\ i + Len(sub) - 1 <= Len(msg)
    /\ SubSeq(msg, i, i + Len(sub) - 1) = sub

\* tfawserr.ErrCodeEquals
ErrCodeEquals(e, code) == e # NilErr /\ e.code = code

\* tfawserr.ErrMessageContains and isAWSErr: code equal and message containing
ErrMessageContains(e, code, sub) ==
  e # NilErr /\ e.code = code /\ Contains(e.msg, sub)

\* tfresource.NotFound on an error value of the handlers
IsNotFoundError(e) == e.code = "NotFoundError"

ErrFinderNotFound == [code |-> "NotFoundError", msg |-> <<"couldn't find resource">>]

ErrThrottling == [code |-> "ThrottlingException", msg |-> <<"Rate exceeded">>]

ErrSagemakerNotFound ==
  [code |-> "ValidationException",
   msg |-> <<"Could not find endpoint configuration", " \"ec-1\".">>]

ErrSagemakerInUse ==
  [code |-> "ValidationException",
   msg |-> <<"Cannot delete endpoint configuration", " \"ec-1\" in use.">>]

ErrCognitoNotFound ==
  [code |-> "ResourceNotFoundException", msg |-> <<"User pool", " pool-1", " does not exist.">>]

ErrSmsRoleTrust ==
  [code |-> "InvalidSmsRoleTrustRelationshipException",
   msg |-> <<"Role does not have a trust relationship allowing Cognito to assume the role">>]

ErrSmsRoleAccess ==
  [code |-> "InvalidSmsRoleAccessPolicyException",
   msg |-> <<"Role does not have permission to publish with SNS">>]

ErrInvalidParameter ==
  [code |-> "InvalidParameterException", msg |-> <<"Invalid pool name">>]

\* the timeout error of resource.Retry
ErrRetryTimeout == [code |-> "TimeoutError", msg |-> <<"timeout while waiting">>]

Services == {"sagemaker", "cognito"}

\* the ID the remote create call gives the resource
IdOf(svc) == IF svc = "sagemaker" THEN "ec-1" ELSE "pool-1"

\* attempts resource.Retry makes before its window is over
MaxAttempts == 2

\* the "tags" argument of a resource: at most two tags here
ConfigTagChoices == {m \in TagMaps : Cardinality(DOMAIN m) <= 2}

\* DefaultTagsConfig: the provider-level default tags (at most one here)
DefaultTagChoices == {m \in TagMaps : Cardinality(DOMAIN m) <= 1}

\* IgnoreTagsConfig: keys and key prefixes to ignore
IgnoreChoices ==
  { [Keys |-> {}, KeyPrefixes |-> {}],
    [Keys |-> {KeyPool[1]}, KeyPrefixes |-> {}],
    [Keys |-> {}, KeyPrefixes |-> {<<"t","e">>}] }

\* DefaultTagsConfig.MergeTags: the defaults overlaid with the given tags
MergeTags(defaults, tags) ==
  [k \in DOMAIN defaults \cup DOMAIN tags |->
     IF k \in DOMAIN tags THEN tags[k] ELSE defaults[k]]

\* KeyValueTags.IgnoreConfig: without the ignored keys and key prefixes
IgnoreConfig(tags, ignore) ==
  [k \in {x \in DOMAIN tags :
            /\ x \notin ignore.Keys
            /\ \A pre \in ignore.KeyPrefixes : ~HasPrefix(x, pre)} |-> tags[k]]

\* KeyValueTags.RemoveDefaultConfig: without the entries that are default tags
RemoveDefaultConfig(tags, defaults) ==
  [k \in {x \in DOMAIN tags :
            ~(x \in DOMAIN defaults /\ defaults[x] = tags[x])} |-> tags[k]]

\* the resource data d of a handler before anything is known
\* the user pool's custom attributes ("schema"), every set of them
SchemaItems == {"custom:a", "custom:b"}

\* the ARN the service reports for a resource
ArnOf(id) == IF id = "" THEN "" ELSE "arn:aws:sagemaker:endpoint-config/" \o id

NoData ==
  [id |-> "", isNew |-> FALSE, tags |-> EmptyTags, mfa |-> "OFF",
   sms |-> FALSE, schema |-> {}, arn |-> "",
   st_tags |-> EmptyTags, st_tags_all |-> EmptyTags]

NoHandlerError == [text |-> "", id |-> "", cause |-> NilErr]

\* fmt.Errorf(text + " (id): %w", cause) and the like
HandlerError(text, id, cause) == [text |-> text, id |-> id, cause |-> cause]

VARIABLES
  hcall,     \* the handler running: service, operation, and the error the
             \* service gives while the IAM role has not propagated
  hpc,       \* its position; "idle" when none runs, "done" when it returned
  d,         \* *schema.ResourceData: id, IsNewResource, config and state
  meta,      \* the provider's DefaultTagsConfig and IgnoreTagsConfig
  rem,       \* the remote resource: exists, tags
  hlog,      \* the remote calls of the running handler, in order
  herr,      \* the error the handler returned
  attempts,  \* attempts made by the running resource.Retry
  oob        \* a tag of the remote resource was changed out of band

resVars == <<hcall, hpc, d, meta, rem, hlog, herr, attempts, oob>>

NoCall == [svc |-> "sagemaker", op |-> "none", iam |-> ErrSmsRoleTrust]

ResIdle ==
  /\ hcall = NoCall
  /\ hpc = "idle"
  /\ d = NoData
  /\ meta = [defaults |-> EmptyTags, ignore |-> [Keys |-> {}, KeyPrefixes |-> {}]]
  /\ rem = [exists |-> FALSE, tags |-> EmptyTags]
  /\ hlog = <<>>
  /\ herr = NoHandlerError
  /\ attempts = 0
  /\ oob = FALSE

\* ------------------------------------------------- destroy check (state)
\* the most resources the Terraform state holds in a run of the check
MaxResources == 2

LifecycleConfigurationType == "aws_sagemaker_notebook_instance_lifecycle_configuration"

ResourceTypes == {LifecycleConfigurationType, "aws_sagemaker_notebook_instance"}

PrimaryIDs == {"lc-1", "lc-2"}

\* s.RootModule().Resources: the resources left in state
StateResources == [Type : ResourceTypes, ID : PrimaryIDs]

TerraformStates == {rs \in SUBSET StateResources : Cardinality(rs) <= MaxResources}

\* a nil *DescribeNotebookInstanceLifecycleConfigOutput
NilOutput == [NotebookInstanceLifecycleConfigName |-> "<no output>"]

ErrLifecycleValidation ==
  [code |-> "ValidationException",
   msg |-> <<"Unable to describe Notebook Instance Lifecycle Config">>]

\* what DescribeNotebookInstanceLifecycleConfig can give: an output and an error
LifecycleDescribeOutcomes ==
  {[out |-> [NotebookInstanceLifecycleConfigName |-> n], err |-> NilErr] :
     n \in PrimaryIDs \cup {NilString}}
  \cup {[out |-> NilOutput, err |-> e] :
          e \in {NilErr, ErrLifecycleValidation, ErrThrottling}}

VARIABLES
  dspc,      \* position in the check: "idle", "loop", "done"
  dsstate,   \* the resources of the state given to the check
  dstodo,    \* the resources the range loop has not visited
  dslog,     \* the describe calls made: resource, output, error
  dserr      \* the error the check returns

destroyVars == <<dspc, dsstate, dstodo, dslog, dserr>>

DestroyIdle ==
  /\ dspc = "idle"
  /\ dsstate = {}
  /\ dstodo = {}
  /\ dslog = <<>>
  /\ dserr = NoHandlerError

\* every variable that is not UpdateTags'
otherVars == <<pollVars, resVars, destroyVars>>

\* ----------------------------------------------------------------- state
VARIABLES
  pc,           \* position of the invocation: "idle", "untag", "tag", "done"
  identifier,   \* argument identifier
  oldTagsMap,   \* argument oldTagsMap (the caller's map)
  newTagsMap,   \* argument newTagsMap (the caller's map)
  oldTags,      \* local oldTags
  newTags,      \* local newTags
  err,          \* the value UpdateTags returns
  calls,        \* the remote calls of this invocation, in order
  remote,       \* the tags of the remote resource
  remoteAtCall  \* the remote tags when the invocation started

vars == <<pc, identifier, oldTagsMap, newTagsMap, oldTags, newTags, err,
          calls, remote, remoteAtCall>>

Init ==
  /\ pc = "idle"
  /\ identifier = NoIdentifier
  /\ oldTagsMap = EmptyTags
  /\ newTagsMap = EmptyTags
  /\ oldTags = EmptyTags
  /\ newTags = EmptyTags
  /\ err = NoError
  /\ calls = <<>>
  /\ remote \in TagMaps
  /\ remoteAtCall = remote
  /\ PollIdle
  /\ ResIdle
  /\ DestroyIdle

\* UpdateTags is called: lines 105-107.  old is the caller's last-known tags
\* of the resource, new is any tag map.
UpdateTagsCall ==
  /\ pc = "idle"
  /\ \E id \in Identifiers, o \in TagMaps, n \in TagMaps :
       /\ Drift(o, remote) <= MaxDrift
       /\ identifier' = id
       /\ oldTagsMap' = o
       /\ newTagsMap' = n
       /\ oldTags' = New(o)
       /\ newTags' = New(n)
  /\ err' = NoError
  /\ calls' = <<>>
  /\ remoteAtCall' = remote
  /\ pc' = "untag"
  /\ UNCHANGED remote
  /\ UNCHANGED otherVars

\* mutant: the removed keys are deleted from the caller's old map as well
UntagResourceOK_InPlace ==
  /\ pc = "untag"
  /\ HasRemoved(oldTags, newTags)
  /\ LET input == [op |-> "UntagResource", ResourceARN |-> identifier,
                   TagKeys |-> UntagTagKeys(oldTags, newTags), err |-> "nil"]
     IN /\ calls' = Append(calls, input)
        /\ remote' = RemoteUntag(remote, input.TagKeys)
        /\ oldTagsMap' = RemoteUntag(oldTagsMap, input.TagKeys)
  /\ pc' = "tag"
  /\ UNCHANGED <<identifier, newTagsMap, oldTags, newTags, err, remoteAtCall>>
  /\ UNCHANGED otherVars

\* lines 109-116, conn.UntagResource succeeds
UntagResourceOK ==
  /\ pc = "untag"
  /\ HasRemoved(oldTags, newTags)
  /\ LET input == [op |-> "UntagResource", ResourceARN |-> identifier,
                   TagKeys |-> UntagTagKeys(oldTags, newTags), err |-> "nil"]
     IN /\ calls' = Append(calls, input)
        /\ remote' = RemoteUntag(remote, input.TagKeys)
  /\ pc' = "tag"
  /\ UNCHANGED <<identifier, oldTagsMap, newTagsMap, oldTags, newTags, err,
                 remoteAtCall>>
  /\ UNCHANGED otherVars

\* mutant: the error of UntagResource is kept but the function goes on
UntagResourceFail_Continue ==
  /\ pc = "untag"
  /\ HasRemoved(oldTags, newTags)
  /\ \E e \in RemoteErrors :
       /\ calls' = Append(calls,
                     [op |-> "UntagResource", ResourceARN |-> identifier,
                      TagKeys |-> UntagTagKeys(oldTags, newTags), err |-> e])
       /\ err' = UntagError(identifier, e)
  /\ pc' = "tag"
  /\ UNCHANGED <<identifier, oldTagsMap, newTagsMap, oldTags, newTags,
                 remote, remoteAtCall>>
  /\ UNCHANGED otherVars

\* lines 109-119, conn.UntagResource fails
UntagResourceFail ==
  /\ pc = "untag"
  /\ HasRemoved(oldTags, newTags)
  /\ \E e \in RemoteErrors :
       /\ calls' = Append(calls,
                     [op |-> "UntagResource", ResourceARN |-> identifier,
                      TagKeys |-> UntagTagKeys(oldTags, newTags), err |-> e])
       /\ err' = UntagError(identifier, e)
  /\ pc' = "done"
  /\ UNCHANGED <<identifier, oldTagsMap, newTagsMap, oldTags, newTags,
                 remote, remoteAtCall>>
  /\ UNCHANGED otherVars

\* line 109, nothing removed
UntagSkip ==
  /\ pc = "untag"
  /\ ~HasRemoved(oldTags, newTags)
  /\ pc' = "tag"
  /\ UNCHANGED <<identifier, oldTagsMap, newTagsMap, oldTags, newTags, err,
                 calls, remote, remoteAtCall>>
  /\ UNCHANGED otherVars

\* lines 122-135, conn.TagResource succeeds
TagResourceOK ==
  /\ pc = "tag"
  /\ HasUpdated(oldTags, newTags)
  /\ LET input == [op |-> "TagResource", ResourceARN |-> identifier,
                   Tags |-> TagInputTags(oldTags, newTags), err |-> "nil"]
     IN /\ calls' = Append(calls, input)
        /\ remote' = RemoteTag(remote, input.Tags)
  /\ err' = NoError
  /\ pc' = "done"
  /\ UNCHANGED <<identifier, oldTagsMap, newTagsMap, oldTags, newTags,
                 remoteAtCall>>
  /\ UNCHANGED otherVars

\* mutant: a failed TagResource is tried again
TagResourceFail_Retry ==
  /\ pc = "tag"
  /\ HasUpdated(oldTags, newTags)
  /\ \E e \in RemoteErrors :
       /\ calls' = Append(calls,
                     [op |-> "TagResource", ResourceARN |-> identifier,
                      Tags |-> TagInputTags(oldTags, newTags), err |-> e])
       /\ err' = TagError(identifier, e)
  /\ pc' = "tag"
  /\ UNCHANGED <<identifier, oldTagsMap, newTagsMap, oldTags, newTags,
                 remote, remoteAtCall>>
  /\ UNCHANGED otherVars

\* lines 122-132, conn.TagResource fails
TagResourceFail ==
  /\ pc = "tag"
  /\ HasUpdated(oldTags, newTags)
  /\ \E e \in RemoteErrors :
       /\ calls' = Append(calls,
                     [op |-> "TagResource", ResourceARN |-> identifier,
                      Tags |-> TagInputTags(oldTags, newTags), err |-> e])
       /\ err' = TagError(identifier, e)
  /\ pc' = "done"
  /\ UNCHANGED <<identifier, oldTagsMap, newTagsMap, oldTags, newTags,
                 remote, remoteAtCall>>
  /\ UNCHANGED otherVars

\* lines 122 and 135, nothing updated
TagSkip ==
  /\ pc = "tag"
  /\ ~HasUpdated(oldTags, newTags)
  /\ err' = NoError
  /\ pc' = "done"
  /\ UNCHANGED <<identifier, oldTagsMap, newTagsMap, oldTags, newTags,
                 calls, remote, remoteAtCall>>
  /\ UNCHANGED otherVars

\* UpdateTags has returned (lines 118, 131, 135): its arguments and locals
\* are gone, the remote resource stays as it is
Return ==
  /\ pc = "done"
  /\ pc' = "idle"
  /\ identifier' = NoIdentifier
  /\ oldTagsMap' = EmptyTags
  /\ newTagsMap' = EmptyTags
  /\ oldTags' = EmptyTags
  /\ newTags' = EmptyTags
  /\ err' = NoError
  /\ calls' = <<>>
  /\ remoteAtCall' = remote
  /\ UNCHANGED remote
  /\ UNCHANGED otherVars

Next ==
  \/ UpdateTagsCall
  \/ UntagResourceOK
  \/ UntagResourceFail
  \/ UntagSkip
  \/ TagResourceOK
  \/ TagResourceFail
  \/ TagSkip
  \/ Return

Spec == Init /\ [][Next]_vars

TypeOK ==
  /\ pc \in {"idle", "untag", "tag", "done"}
  /\ identifier \in Identifiers \cup {NoIdentifier}
  /\ oldTagsMap \in TagMaps /\ newTagsMap \in TagMaps
  /\ oldTags \in TagMaps /\ newTags \in TagMaps
  /\ remote \in TagMaps /\ remoteAtCall \in TagMaps
  /\ Len(calls) <= 2

\* UpdateTags is not running and the resource has no tags
TagIdle ==
  /\ pc = "idle"
  /\ identifier = NoIdentifier
  /\ oldTagsMap = EmptyTags
  /\ newTagsMap = EmptyTags
  /\ oldTags = EmptyTags
  /\ newTags = EmptyTags
  /\ err = NoError
  /\ calls = <<>>
  /\ remote = EmptyTags
  /\ remoteAtCall = EmptyTags

\* ------------------------------------------------- the status poller
\* every variable that is not the poller's
notPollVars == <<vars, resVars, destroyVars>>

\* a wait begins with one of the configurations
PollStart ==
  /\ ppc = "idle"
  /\ \E c \in WaitConfigs : pconf' = c
  /\ pstate' = "Pending"
  /\ elapsed' = 0
  /\ probeLog' = <<>>
  /\ presult' = NoResult
  /\ ppc' = "delay"
  /\ UNCHANGED notPollVars

\* the minimum delay before the first probe
PollDelay ==
  /\ ppc = "delay"
  /\ elapsed' = elapsed + pconf.delay
  /\ ppc' = "probe"
  /\ UNCHANGED <<pconf, pstate, probeLog, presult>>
  /\ UNCHANGED notPollVars

\* one probe: the refresh function runs the finder, the poller classifies
\* what it returned; a terminal state ends the wait
PollProbe ==
  /\ ppc = "probe"
  /\ \E found \in FinderResults(pconf.probe) :
       LET r == Refresh(pconf.probe, found)
           st == Classify(pconf, r, elapsed)
       IN /\ probeLog' = Append(probeLog, [found |-> found, result |-> r])
          /\ pstate' = st
          /\ presult' = r
          /\ ppc' = IF st = "Pending" THEN "sleep" ELSE "done"
  /\ UNCHANGED <<pconf, elapsed>>
  /\ UNCHANGED notPollVars

\* the poll interval between two probes
PollSleep ==
  /\ ppc = "sleep"
  /\ elapsed' = elapsed + pconf.interval
  /\ ppc' = "probe"
  /\ UNCHANGED <<pconf, pstate, probeLog, presult>>
  /\ UNCHANGED notPollVars

\* the wait has returned
PollReturn ==
  /\ ppc = "done"
  /\ ppc' = "idle"
  /\ pconf' = NoConfig
  /\ pstate' = "Pending"
  /\ elapsed' = 0
  /\ probeLog' = <<>>
  /\ presult' = NoResult
  /\ UNCHANGED notPollVars

PollInit == PollIdle /\ TagIdle /\ ResIdle /\ DestroyIdle

PollNext ==
  \/ PollStart
  \/ PollDelay
  \/ PollProbe
  \/ PollSleep
  \/ PollReturn

allVars == <<vars, pollVars, resVars, destroyVars>>

PollSpec == PollInit /\ [][PollNext]_allVars

\* the poller keeps running: a wait that can take a step takes it
FairPollSpec == PollSpec /\ WF_allVars(PollNext)

\* ------------------------------------------------- resource handlers
\* every variable that is not the handlers'
notResVars == <<vars, pollVars, destroyVars>>

Absentee == [exists |-> FALSE, tags |-> EmptyTags]

\* mutant: the resource-level tags are overridden by the defaults
CreateTags_DefaultsWin(defaults, tags) ==
  IF LenTags(MergeTags(tags, defaults)) > 0
    THEN IgnoreAws(MergeTags(tags, defaults))
    ELSE EmptyTags

\* the tags of the create input (sagemaker :280, :298-300; cognito :583,
\* :721-723), as a key-value map; none when the merged tags are empty
CreateTags(defaults, tags) ==
  IF LenTags(MergeTags(defaults, New(tags))) > 0
    THEN IgnoreAws(MergeTags(defaults, New(tags)))
    ELSE EmptyTags

\* mutant: the ignore configuration is not applied on read
ReadTagsAll_NoIgnore(remoteTags, ignore) == IgnoreAws(remoteTags)

\* tags_all as Read sets it from the tags the service returned
ReadTagsAll(remoteTags, ignore) == IgnoreConfig(IgnoreAws(remoteTags), ignore)

\* tags as Read sets it
ReadTags(remoteTags, ignore, defaults) ==
  RemoveDefaultConfig(ReadTagsAll(remoteTags, ignore), defaults)

\* mutant: any ValidationException counts as not found
SagemakerDeleteResult_AnyValidation(id, e) ==
  IF ErrCodeEquals(e, "ValidationException") THEN NoHandlerError
  ELSE IF e # NilErr
    THEN HandlerError("error deleting SageMaker Endpoint Configuration", id, e)
    ELSE NoHandlerError

\* what resourceAwsSagemakerEndpointConfigurationDelete returns when
\* DeleteEndpointConfig returned e
SagemakerDeleteResult(id, e) ==
  IF ErrMessageContains(e, "ValidationException",
                        <<"Could not find endpoint configuration">>)
    THEN NoHandlerError
  ELSE IF e # NilErr
    THEN HandlerError("error deleting SageMaker Endpoint Configuration", id, e)
    ELSE NoHandlerError

\* what resourceAwsCognitoUserPoolDelete returns when DeleteUserPool returned e
CognitoDeleteResult(id, e) ==
  IF ErrCodeEquals(e, "ResourceNotFoundException") THEN NoHandlerError
  ELSE IF e # NilErr
    THEN HandlerError("error deleting Cognito user pool", id, e)
    ELSE NoHandlerError

\* mutant: every error is retried
RetryableSmsError_AnyError(e) == e # NilErr

\* the retryable errors of CreateUserPool and SetUserPoolMfaConfig
RetryableSmsError(e) ==
  \/ ErrMessageContains(e, "InvalidSmsRoleTrustRelationshipException",
       <<"Role does not have a trust relationship allowing Cognito to assume the role">>)
  \/ ErrMessageContains(e, "InvalidSmsRoleAccessPolicyException",
       <<"Role does not have permission to publish with SNS">>)

\* isResourceTimeoutError
IsResourceTimeoutError(e) == e.code = "TimeoutError"

\* the handler returns with error e (nil for success)
Finish(e) ==
  /\ herr' = e
  /\ hpc' = "done"
  /\ attempts' = 0

\* mutant: the ID is set whatever the create call returned
IdAfterCreate_Always(id, created, e) == created

\* d.SetId after the remote create call (sagemaker :311-315, cognito
\* :748-752): reached only when the call returned no error
IdAfterCreate(id, created, e) == IF e = NilErr THEN created ELSE id

\* mutant: a not-found result removes a newly created resource too
SagemakerGone_AlsoNew(isNew, e) == IsNotFoundError(e)

\* !d.IsNewResource() && tfresource.NotFound(err), sagemaker :327
SagemakerGone(isNew, e) == ~isNew /\ IsNotFoundError(e)

\* mutant: not-found is an error like any other
CognitoGone_Never(e) == FALSE

\* isAWSErr(err, ResourceNotFoundException, ""), cognito :813 and :923
CognitoGone(e) == ErrMessageContains(e, "ResourceNotFoundException", <<>>)

\* the values of mfa_configuration the handlers tell apart: off and not off
MfaConfigurations == {"OFF", "ON"}

\* Create is called on a resource that is not in the state, its "tags"
\* argument one of tagChoices
CreateBeginWith(tagChoices) ==
  /\ hpc = "idle"
  /\ d.id = ""
  /\ ~rem.exists
  /\ \E svc \in Services, t \in tagChoices, m \in MfaConfigurations,
        iam \in {ErrSmsRoleTrust, ErrSmsRoleAccess} :
       /\ svc = "sagemaker" => (m = "OFF" /\ iam = ErrSmsRoleTrust)
       /\ hcall' = [svc |-> svc, op |-> "create", iam |-> iam]
       /\ d' = [NoData EXCEPT !.tags = t, !.mfa = m, !.isNew = TRUE]
       /\ hpc' = IF svc = "sagemaker" THEN "sm_create" ELSE "cg_create"
  /\ hlog' = <<>>
  /\ herr' = NoHandlerError
  /\ attempts' = 0
  /\ UNCHANGED <<meta, rem, oob>>
  /\ UNCHANGED notResVars

CreateBegin == CreateBeginWith(ConfigTagChoices)

\* resourceAwsSagemakerEndpointConfigurationCreate, lines 277-317
SagemakerCreate ==
  /\ hpc = "sm_create"
  /\ LET input == [op |-> "CreateEndpointConfig", name |-> IdOf("sagemaker"),
                   Tags |-> Tags(CreateTags(meta.defaults, d.tags))]
     IN \/ /\ hlog' = Append(hlog, [input |-> input, err |-> NilErr])
           /\ rem' = [exists |-> TRUE, tags |-> RemoteTag(EmptyTags, input.Tags)]
           /\ oob' = FALSE
           /\ d' = [d EXCEPT !.id = IdAfterCreate(d.id, input.name, NilErr)]
           /\ hpc' = "sm_find"
           /\ UNCHANGED <<herr, attempts>>
        \/ \E e \in {ErrThrottling, ErrInvalidParameter} :
             /\ hlog' = Append(hlog, [input |-> input, err |-> e])
             /\ Finish(HandlerError("error creating SageMaker Endpoint Configuration", "", e))
             /\ d' = [d EXCEPT !.id = IdAfterCreate(d.id, input.name, e)]
             /\ UNCHANGED <<rem, oob>>
  /\ UNCHANGED <<hcall, meta>>
  /\ UNCHANGED notResVars

\* Read is called on a resource of the state
ReadBegin ==
  /\ hpc = "idle"
  /\ d.id # ""
  /\ hcall' = [hcall EXCEPT !.op = "read"]
  /\ d' = [d EXCEPT !.isNew = FALSE]
  /\ hpc' = IF hcall.svc = "sagemaker" THEN "sm_find" ELSE "cg_describe"
  /\ hlog' = <<>>
  /\ herr' = NoHandlerError
  /\ attempts' = 0
  /\ UNCHANGED <<meta, rem, oob>>
  /\ UNCHANGED notResVars

\* what a describing call can return: the resource, not-found when it is gone,
\* or another error
DescribeOutcomes(notFound) ==
  (IF rem.exists THEN {NilErr} ELSE {notFound}) \cup {ErrThrottling}

\* resourceAwsSagemakerEndpointConfigurationRead, lines 320-351
SagemakerFind ==
  /\ hpc = "sm_find"
  /\ \E e \in DescribeOutcomes(ErrFinderNotFound) :
       /\ hlog' = Append(hlog, [input |-> [op |-> "EndpointConfigByName", name |-> d.id],
                                err |-> e])
       /\ IF SagemakerGone(d.isNew, e)
            THEN /\ d' = [d EXCEPT !.id = ""]
                 /\ Finish(NoHandlerError)
            ELSE IF e # NilErr
              THEN /\ Finish(HandlerError("error reading SageMaker Endpoint Configuration", d.id, e))
                   /\ UNCHANGED d
              ELSE /\ d' = [d EXCEPT !.arn = ArnOf(d.id)]
                   /\ hpc' = "sm_listtags"
                   /\ UNCHANGED <<herr, attempts>>
  /\ UNCHANGED <<hcall, meta, rem, oob>>
  /\ UNCHANGED notResVars

\* resourceAwsSagemakerEndpointConfigurationRead, lines 353-369
SagemakerListTags ==
  /\ hpc = "sm_listtags"
  /\ \E e \in DescribeOutcomes(ErrSagemakerNotFound) :
       /\ hlog' = Append(hlog, [input |-> [op |-> "ListTags", name |-> d.id],
                                err |-> e, tags |-> rem.tags])
       /\ IF e # NilErr
            THEN /\ Finish(HandlerError("error listing tags for Sagemaker Endpoint Configuration", d.id, e))
                 /\ UNCHANGED d
            ELSE /\ d' = [d EXCEPT
                          !.st_tags = ReadTags(rem.tags, meta.ignore, meta.defaults),
                          !.st_tags_all = ReadTagsAll(rem.tags, meta.ignore)]
                 /\ Finish(NoHandlerError)
  /\ UNCHANGED <<hcall, meta, rem, oob>>
  /\ UNCHANGED notResVars

\* resource.Retry has given up: the entry of the log for it
RetryTimedOut == [input |-> [op |-> "resource.Retry"], err |-> ErrRetryTimeout]

\* one attempt of a retried call has returned call.err: what comes next.
\* inRetry: the attempt was made inside resource.Retry; retryable: the
\* function given to Retry returns a RetryableError for call.err.  When the
\* window is over Retry returns a timeout error, on which the handler makes
\* one more call (lastPc), or the last error of the function
AfterAttempt(call, retryable, inRetry, okPc, retryPc, lastPc, failure) ==
  IF call.err = NilErr
    THEN /\ hlog' = Append(hlog, call)
         /\ hpc' = okPc
         /\ attempts' = 0
         /\ UNCHANGED herr
  ELSE IF inRetry /\ retryable
    THEN \/ /\ attempts + 1 < MaxAttempts
            /\ hlog' = Append(hlog, call)
            /\ attempts' = attempts + 1
            /\ hpc' = retryPc
            /\ UNCHANGED herr
         \/ /\ IsResourceTimeoutError(RetryTimedOut.err)
            /\ hlog' = Append(Append(hlog, call), RetryTimedOut)
            /\ attempts' = 0
            /\ hpc' = lastPc
            /\ UNCHANGED herr
         \/ /\ hlog' = Append(hlog, call)
            /\ Finish(failure)
  ELSE /\ hlog' = Append(hlog, call)
       /\ Finish(failure)

CognitoCreateInput ==
  [op |-> "CreateUserPool", UserPoolTags |-> CreateTags(meta.defaults, d.tags)]

\* the errors CreateUserPool and SetUserPoolMfaConfig can return
CognitoWriteErrors == {hcall.iam, ErrInvalidParameter}

\* resourceAwsCognitoUserPoolCreate, lines 580-752: CreateUserPool, made
\* inside resource.Retry ("cg_create") or once more after its timeout
CognitoCreate ==
  /\ hpc \in {"cg_create", "cg_create_last"}
  /\ \E e \in {NilErr} \cup CognitoWriteErrors :
       /\ AfterAttempt([input |-> CognitoCreateInput, err |-> e],
                       RetryableSmsError(e), hpc = "cg_create",
                       IF d.mfa # "OFF" THEN "cg_mfa" ELSE "cg_describe",
                       "cg_create", "cg_create_last",
                       HandlerError("error creating Cognito User Pool", "", e))
       /\ d' = [d EXCEPT !.id = IdAfterCreate(d.id, IdOf("cognito"), e)]
       /\ IF e = NilErr
            THEN /\ rem' = [exists |-> TRUE, tags |-> CognitoCreateInput.UserPoolTags]
                 /\ oob' = FALSE
            ELSE UNCHANGED <<rem, oob>>
  /\ UNCHANGED <<hcall, meta>>
  /\ UNCHANGED notResVars

\* resourceAwsCognitoUserPoolCreate, lines 754-799: SetUserPoolMfaConfig
CognitoSetMfa ==
  /\ hpc \in {"cg_mfa", "cg_mfa_last"}
  /\ \E e \in {NilErr} \cup CognitoWriteErrors :
       /\ AfterAttempt([input |-> [op |-> "SetUserPoolMfaConfig",
                                   MfaConfiguration |-> d.mfa,
                                   UserPoolId |-> d.id,
                                   SmsMfaConfiguration |-> d.sms],
                        err |-> e],
                       RetryableSmsError(e), hpc = "cg_mfa",
                       "cg_describe", "cg_mfa", "cg_mfa_last",
                       HandlerError("error setting Cognito User Pool MFA Configuration", d.id, e))
  /\ UNCHANGED <<hcall, meta, rem, oob, d>>
  /\ UNCHANGED notResVars

\* resourceAwsCognitoUserPoolRead, lines 802-915: DescribeUserPool
CognitoDescribe ==
  /\ hpc = "cg_describe"
  /\ \E e \in DescribeOutcomes(ErrCognitoNotFound) :
       /\ hlog' = Append(hlog, [input |-> [op |-> "DescribeUserPool", name |-> d.id],
                                err |-> e, tags |-> rem.tags])
       /\ IF CognitoGone(e)
            THEN /\ d' = [d EXCEPT !.id = ""]
                 /\ Finish(NoHandlerError)
            ELSE IF e # NilErr
              THEN /\ Finish(HandlerError("error describing Cognito User Pool", d.id, e))
                   /\ UNCHANGED d
              ELSE /\ d' = [d EXCEPT
                            !.st_tags = ReadTags(rem.tags, meta.ignore, meta.defaults),
                            !.st_tags_all = ReadTagsAll(rem.tags, meta.ignore)]
                   /\ hpc' = "cg_getmfa"
                   /\ UNCHANGED <<herr, attempts>>
  /\ UNCHANGED <<hcall, meta, rem, oob>>
  /\ UNCHANGED notResVars

\* resourceAwsCognitoUserPoolRead, lines 917-939: GetUserPoolMfaConfig
CognitoGetMfa ==
  /\ hpc = "cg_getmfa"
  /\ \E e \in DescribeOutcomes(ErrCognitoNotFound) :
       /\ hlog' = Append(hlog, [input |-> [op |-> "GetUserPoolMfaConfig", name |-> d.id],
                                err |-> e])
       /\ IF CognitoGone(e)
            THEN /\ d' = [d EXCEPT !.id = ""]
                 /\ Finish(NoHandlerError)
            ELSE IF e # NilErr
              THEN /\ Finish(HandlerError("error getting Cognito User Pool MFA Configuration", d.id, e))
                   /\ UNCHANGED d
              ELSE /\ Finish(NoHandlerError)
                   /\ UNCHANGED d
  /\ UNCHANGED <<hcall, meta, rem, oob>>
  /\ UNCHANGED notResVars

\* Delete is called on a resource of the state
DeleteBegin ==
  /\ hpc = "idle"
  /\ d.id # ""
  /\ hcall' = [hcall EXCEPT !.op = "delete"]
  /\ d' = [d EXCEPT !.isNew = FALSE]
  /\ hpc' = "delete"
  /\ hlog' = <<>>
  /\ herr' = NoHandlerError
  /\ attempts' = 0
  /\ UNCHANGED <<meta, rem, oob>>
  /\ UNCHANGED notResVars

\* what the remote delete call can return
DeleteOutcomes(svc) ==
  IF svc = "sagemaker"
    THEN (IF rem.exists THEN {NilErr, ErrSagemakerInUse} ELSE {ErrSagemakerNotFound})
         \cup {ErrThrottling}
    ELSE (IF rem.exists THEN {NilErr} ELSE {ErrCognitoNotFound})
         \cup {ErrThrottling}

\* resourceAwsSagemakerEndpointConfigurationDelete (lines 385-404) and
\* resourceAwsCognitoUserPoolDelete (lines 1195-1215)
DeleteCall ==
  /\ hpc = "delete"
  /\ \E e \in DeleteOutcomes(hcall.svc) :
       /\ hlog' = Append(hlog, [input |-> [op |-> "Delete", name |-> d.id], err |-> e])
       /\ rem' = IF e = NilErr THEN Absentee ELSE rem
       /\ oob' = IF e = NilErr THEN FALSE ELSE oob
       /\ Finish(IF hcall.svc = "sagemaker"
                   THEN SagemakerDeleteResult(d.id, e)
                   ELSE CognitoDeleteResult(d.id, e))
  /\ UNCHANGED <<hcall, meta, d>>
  /\ UNCHANGED notResVars

\* the handler has returned: a successful Delete, a Read that cleared the ID
\* and a Create that set none take the resource out of the state
HandlerReturn ==
  /\ hpc = "done"
  /\ hpc' = "idle"
  /\ hcall' = [svc |-> hcall.svc, op |-> "none", iam |-> hcall.iam]
  /\ d' = IF d.id = "" \/ (hcall.op = "delete" /\ herr = NoHandlerError)
            THEN NoData
            ELSE [d EXCEPT !.isNew = FALSE]
  /\ hlog' = <<>>
  /\ herr' = NoHandlerError
  /\ attempts' = 0
  /\ UNCHANGED <<meta, rem, oob>>
  /\ UNCHANGED notResVars

\* the value of the tag set out of band
OutOfBandValue == ValuePool[2]

\* somebody else sets a tag on the remote resource, between two handlers
OutOfBandTag ==
  /\ hpc = "idle"
  /\ rem.exists
  /\ ~oob
  /\ \E k \in Keys :
       rem' = [rem EXCEPT !.tags = RemoteTag(rem.tags, {[Key |-> k, Value |-> OutOfBandValue]})]
  /\ oob' = TRUE
  /\ UNCHANGED <<hcall, hpc, d, meta, hlog, herr, attempts>>
  /\ UNCHANGED notResVars

\* somebody else deletes the remote resource; the handlers see it in the
\* answer of their describing and deleting calls, so it happens before one
OutOfBandDelete ==
  /\ rem.exists
  /\ hpc \in {"sm_find", "sm_listtags", "cg_describe", "cg_getmfa", "delete"}
  /\ rem' = Absentee
  /\ oob' = FALSE
  /\ UNCHANGED <<hcall, hpc, d, meta, hlog, herr, attempts>>
  /\ UNCHANGED notResVars

ResInit ==
  /\ TagIdle
  /\ PollIdle
  /\ DestroyIdle
  /\ hcall = NoCall
  /\ hpc = "idle"
  /\ d = NoData
  /\ meta \in [defaults : DefaultTagChoices, ignore : IgnoreChoices]
  /\ rem = Absentee
  /\ hlog = <<>>
  /\ herr = NoHandlerError
  /\ attempts = 0
  /\ oob = FALSE

ResNext ==
  \/ CreateBegin
  \/ SagemakerCreate
  \/ ReadBegin
  \/ SagemakerFind
  \/ SagemakerListTags
  \/ CognitoCreate
  \/ CognitoSetMfa
  \/ CognitoDescribe
  \/ CognitoGetMfa
  \/ DeleteBegin
  \/ DeleteCall
  \/ HandlerReturn
  \/ OutOfBandTag
  \/ OutOfBandDelete

ResSpec == ResInit /\ [][ResNext]_allVars

\* ---------------------------------------------------------- Update handlers
\* the "tags" argument an Update brings: as before, or at most one tag
UpdateTagChoices(t) == {t} \cup DefaultTagChoices

\* tags_all of the plan: the default tags merged with the configured tags
PlannedTagsAll(defaults, tags) == MergeTags(defaults, New(tags))

ErrUnusedDays ==
  [code |-> "InvalidParameterException",
   msg |-> <<"Please use TemporaryPasswordValidityDays in PasswordPolicy instead of UnusedAccountValidityDays">>]

\* Update is called on a resource of the state with a new configuration;
\* prior holds the values of the state, for HasChange and GetChange.  admin:
\* admin_create_user_config changes and sets unused_account_validity_days
UpdateBegin ==
  /\ hpc = "idle"
  /\ d.id # ""
  /\ hcall.svc = "sagemaker" => d.arn # ""
  /\ \E t \in UpdateTagChoices(d.tags), m \in MfaConfigurations, sms \in BOOLEAN,
        sch \in SUBSET SchemaItems, admin \in BOOLEAN :
       /\ hcall.svc = "sagemaker" =>
            (m = d.mfa /\ sms = d.sms /\ sch = d.schema /\ ~admin)
       /\ hcall.svc = "cognito" => t = d.tags
       /\ hcall' = [svc |-> hcall.svc, op |-> "update", iam |-> hcall.iam,
                    prior |-> [mfa |-> d.mfa, sms |-> d.sms, schema |-> d.schema,
                               tags |-> d.tags, tags_all |-> d.st_tags_all],
                    admin |-> admin]
       /\ d' = [d EXCEPT !.tags = t, !.mfa = m, !.sms = sms, !.schema = sch,
                         !.isNew = FALSE]
       /\ hpc' = IF hcall.svc = "sagemaker" THEN "sm_update" ELSE "cgu_mfa"
  /\ hlog' = <<>>
  /\ herr' = NoHandlerError
  /\ attempts' = 0
  /\ UNCHANGED <<meta, rem, oob>>
  /\ UNCHANGED notResVars

\* mutant: the reconciler is called on every Update
TagsAllHasChange_Always(o, n) == TRUE

\* d.HasChange("tags_all"), sagemaker :375
TagsAllHasChange(o, n) == o # n

\* what the tag reconciler leaves of the remote tags when it returns no error
Reconciled(tags, o, n) ==
  RemoteTag(RemoteUntag(tags, UntagTagKeys(New(o), New(n))),
            TagInputTags(New(o), New(n)))

\* resourceAwsSagemakerEndpointConfigurationUpdate, lines 375-381: the
\* reconciler is called with the ARN and both values of tags_all
SagemakerUpdateTags ==
  /\ hpc = "sm_update"
  /\ LET o == hcall.prior.tags_all
         n == PlannedTagsAll(meta.defaults, d.tags)
     IN /\ TagsAllHasChange(o, n)
        /\ \E e \in {NilErr, ErrThrottling} :
             /\ hlog' = Append(hlog, [input |-> [op |-> "UpdateTags",
                                                 identifier |-> d.arn,
                                                 oldTags |-> o, newTags |-> n],
                                      err |-> e])
             /\ IF e = NilErr
                  THEN /\ rem' = [rem EXCEPT !.tags = Reconciled(rem.tags, o, n)]
                       /\ hpc' = "sm_find"
                       /\ UNCHANGED <<herr, attempts>>
                  ELSE /\ Finish(HandlerError("error updating Sagemaker Endpoint Configuration tags", d.id, e))
                       /\ UNCHANGED rem
  /\ UNCHANGED <<hcall, d, meta, oob>>
  /\ UNCHANGED notResVars

\* tags_all has not changed: straight to Read, line 382
SagemakerUpdateSkip ==
  /\ hpc = "sm_update"
  /\ ~TagsAllHasChange(hcall.prior.tags_all, PlannedTagsAll(meta.defaults, d.tags))
  /\ hpc' = "sm_find"
  /\ UNCHANGED <<hcall, d, meta, rem, hlog, herr, attempts, oob>>
  /\ UNCHANGED notResVars

\* d.HasChanges of the MFA block, cognito :948-953
MfaHasChanges == hcall.prior.mfa # d.mfa \/ hcall.prior.sms # d.sms

\* d.HasChanges of the UpdateUserPool block, cognito :1006-1023
PoolHasChanges ==
  \/ hcall.admin
  \/ hcall.prior.sms # d.sms
  \/ hcall.prior.tags # d.tags
  \/ hcall.prior.tags_all # PlannedTagsAll(meta.defaults, d.tags)

\* mutant: the SMS settings go with sms_configuration, whatever the MFA mode
SmsMfaIncluded_AnyMode(sms, mfa) == sms

\* input.SmsMfaConfiguration is set, cognito :965: an sms_configuration is
\* present and mfa_configuration is not OFF
SmsMfaIncluded(sms, mfa) == sms /\ mfa # "OFF"

\* resourceAwsCognitoUserPoolUpdate, lines 948-1000: SetUserPoolMfaConfig
CognitoUpdateMfa ==
  /\ hpc \in {"cgu_mfa", "cgu_mfa_last"}
  /\ MfaHasChanges
  /\ \E e \in {NilErr} \cup CognitoWriteErrors :
       AfterAttempt([input |-> [op |-> "SetUserPoolMfaConfig",
                                MfaConfiguration |-> d.mfa,
                                UserPoolId |-> d.id,
                                SmsMfaConfiguration |-> SmsMfaIncluded(d.sms, d.mfa)],
                     err |-> e],
                    RetryableSmsError(e), hpc = "cgu_mfa",
                    "cgu_pool", "cgu_mfa", "cgu_mfa_last",
                    HandlerError("error setting Cognito User Pool MFA Configuration", d.id, e))
  /\ UNCHANGED <<hcall, meta, rem, oob, d>>
  /\ UNCHANGED notResVars

CognitoUpdateMfaSkip ==
  /\ hpc = "cgu_mfa"
  /\ ~MfaHasChanges
  /\ hpc' = "cgu_pool"
  /\ UNCHANGED <<hcall, d, meta, rem, hlog, herr, attempts, oob>>
  /\ UNCHANGED notResVars

\* the retryable errors of UpdateUserPool, cognito :1151-1163
RetryableUpdateError(e) ==
  \/ RetryableSmsError(e)
  \/ ErrMessageContains(e, "InvalidParameterException", ErrUnusedDays.msg)

\* params.AdminCreateUserConfig.UnusedAccountValidityDays is still set: it is
\* set to nil when a call returns the error about it, cognito :1160
UnusedDaysSent ==
  /\ hcall.admin
  /\ \A i \in 1..Len(hlog) :
       ~(hlog[i].input.op = "UpdateUserPool" /\ hlog[i].err = ErrUnusedDays)

\* resourceAwsCognitoUserPoolUpdate, lines 1006-1174: UpdateUserPool
CognitoUpdatePool ==
  /\ hpc \in {"cgu_pool", "cgu_pool_last"}
  /\ PoolHasChanges
  /\ \E e \in {NilErr} \cup CognitoWriteErrors
              \cup (IF UnusedDaysSent THEN {ErrUnusedDays} ELSE {}) :
       /\ AfterAttempt([input |-> [op |-> "UpdateUserPool",
                                   UserPoolId |-> d.id,
                                   UserPoolTags |-> CreateTags(meta.defaults, d.tags),
                                   UnusedAccountValidityDays |-> UnusedDaysSent],
                        err |-> e],
                       RetryableUpdateError(e), hpc = "cgu_pool",
                       "cgu_schema", "cgu_pool", "cgu_pool_last",
                       HandlerError("error updating Cognito User pool", d.id, e))
       /\ rem' = IF e = NilErr
                   THEN [rem EXCEPT !.tags = CreateTags(meta.defaults, d.tags)]
                   ELSE rem
  /\ UNCHANGED <<hcall, meta, oob, d>>
  /\ UNCHANGED notResVars

CognitoUpdatePoolSkip ==
  /\ hpc = "cgu_pool"
  /\ ~PoolHasChanges
  /\ hpc' = "cgu_schema"
  /\ UNCHANGED <<hcall, d, meta, rem, hlog, herr, attempts, oob>>
  /\ UNCHANGED notResVars

\* oldSchema.Difference(newSchema).Len() == 0, cognito :1178
SchemaAddOnly(old, new) == old \ new = {}

\* mutant: the whole new schema is sent
CustomAttributesOf_All(old, new) == new

\* newSchema.Difference(oldSchema), cognito :1181
CustomAttributesOf(old, new) == new \ old

\* resourceAwsCognitoUserPoolUpdate, lines 1176-1186: AddCustomAttributes
CognitoAddCustomAttributes ==
  /\ hpc = "cgu_schema"
  /\ hcall.prior.schema # d.schema
  /\ SchemaAddOnly(hcall.prior.schema, d.schema)
  /\ \E e \in {NilErr, ErrInvalidParameter} :
       /\ hlog' = Append(hlog, [input |-> [op |-> "AddCustomAttributes",
                                           UserPoolId |-> d.id,
                                           CustomAttributes |->
                                             CustomAttributesOf(hcall.prior.schema, d.schema)],
                                err |-> e])
       /\ IF e = NilErr
            THEN /\ hpc' = "cg_describe"
                 /\ UNCHANGED <<herr, attempts>>
            ELSE Finish(HandlerError("error updating Cognito User Pool: unable to add custom attributes from schema", d.id, e))
  /\ UNCHANGED <<hcall, d, meta, rem, oob>>
  /\ UNCHANGED notResVars

\* lines 1187-1189: an item of the old schema is not in the new one
CognitoSchemaRejected ==
  /\ hpc = "cgu_schema"
  /\ hcall.prior.schema # d.schema
  /\ ~SchemaAddOnly(hcall.prior.schema, d.schema)
  /\ Finish(HandlerError("error updating Cognito User Pool: cannot modify or remove schema items", d.id, NilErr))
  /\ UNCHANGED <<hcall, d, meta, rem, hlog, oob>>
  /\ UNCHANGED notResVars

\* the schema has not changed: straight to Read, line 1192
CognitoSchemaSkip ==
  /\ hpc = "cgu_schema"
  /\ hcall.prior.schema = d.schema
  /\ hpc' = "cg_describe"
  /\ UNCHANGED <<hcall, d, meta, rem, hlog, herr, attempts, oob>>
  /\ UNCHANGED notResVars

\* the life of a resource under create and update, with no default and no
\* ignored tags and nobody else changing the remote resource
UpdInit == ResIdle /\ TagIdle /\ PollIdle /\ DestroyIdle

\* the resources of this life are created without tags
UntaggedCreateBegin == CreateBeginWith({EmptyTags})

UpdNext ==
  \/ UntaggedCreateBegin
  \/ SagemakerCreate
  \/ SagemakerFind
  \/ SagemakerListTags
  \/ CognitoCreate
  \/ CognitoSetMfa
  \/ CognitoDescribe
  \/ CognitoGetMfa
  \/ HandlerReturn
  \/ UpdateBegin
  \/ SagemakerUpdateTags
  \/ SagemakerUpdateSkip
  \/ CognitoUpdateMfa
  \/ CognitoUpdateMfaSkip
  \/ CognitoUpdatePool
  \/ CognitoUpdatePoolSkip
  \/ CognitoAddCustomAttributes
  \/ CognitoSchemaRejected
  \/ CognitoSchemaSkip

UpdSpec == UpdInit /\ [][UpdNext]_allVars

\* ------------------------------------------------------------ destroy check
notDestroyVars == <<vars, pollVars, resVars>>

Continue == [continue |-> TRUE, err |-> NoHandlerError]

ReturnError(e) == [continue |-> FALSE, err |-> e]

\* the body of the range loop for one resource of the lifecycle configuration
\* type, given what describe returned: continue, or return an error
DestroyVerdict_ErrorsIgnored(rs, out, e) ==
  IF e # NilErr
    THEN Continue
    ELSE IF out # NilOutput
              /\ StringValue(out.NotebookInstanceLifecycleConfigName) = rs.ID
           THEN ReturnError(HandlerError("still exists", rs.ID, NilErr))
           ELSE Continue

DestroyVerdict(rs, out, e) ==
  IF e # NilErr
    THEN IF ErrMessageContains(e, "ValidationException", <<>>)
           THEN Continue
           ELSE ReturnError(HandlerError("", "", e))
    ELSE IF out # NilOutput
              /\ StringValue(out.NotebookInstanceLifecycleConfigName) = rs.ID
           THEN ReturnError(HandlerError("still exists", rs.ID, NilErr))
           ELSE Continue

\* the check is called with a state
DestroyCheckBegin ==
  /\ dspc = "idle"
  /\ \E st \in TerraformStates :
       /\ dsstate' = st
       /\ dstodo' = st
  /\ dspc' = "loop"
  /\ dslog' = <<>>
  /\ dserr' = NoHandlerError
  /\ UNCHANGED notDestroyVars

\* the loop visits a resource of another type
DestroySkip ==
  /\ dspc = "loop"
  /\ \E rs \in dstodo :
       /\ rs.Type # LifecycleConfigurationType
       /\ dstodo' = dstodo \ {rs}
  /\ UNCHANGED <<dspc, dsstate, dslog, dserr>>
  /\ UNCHANGED notDestroyVars

\* the loop visits a lifecycle configuration and describes it
DestroyDescribe ==
  /\ dspc = "loop"
  /\ \E rs \in dstodo, o \in LifecycleDescribeOutcomes :
       /\ rs.Type = LifecycleConfigurationType
       /\ dslog' = Append(dslog, [rs |-> rs, out |-> o.out, err |-> o.err])
       /\ dstodo' = dstodo \ {rs}
       /\ IF DestroyVerdict(rs, o.out, o.err).continue
            THEN UNCHANGED <<dspc, dserr>>
            ELSE /\ dserr' = DestroyVerdict(rs, o.out, o.err).err
                 /\ dspc' = "done"
  /\ UNCHANGED dsstate
  /\ UNCHANGED notDestroyVars

\* the loop is over: return nil
DestroyPass ==
  /\ dspc = "loop"
  /\ dstodo = {}
  /\ dspc' = "done"
  /\ UNCHANGED <<dsstate, dstodo, dslog, dserr>>
  /\ UNCHANGED notDestroyVars

\* the caller has the result
DestroyReturn ==
  /\ dspc = "done"
  /\ dspc' = "idle"
  /\ dsstate' = {}
  /\ dstodo' = {}
  /\ dslog' = <<>>
  /\ dserr' = NoHandlerError
  /\ UNCHANGED notDestroyVars

DestroyInit == DestroyIdle /\ TagIdle /\ PollIdle /\ ResIdle

DestroyNext ==
  \/ DestroyCheckBegin
  \/ DestroySkip
  \/ DestroyDescribe
  \/ DestroyPass
  \/ DestroyReturn

DestroySpec == DestroyInit /\ [][DestroyNext]_allVars

\* ------------------------------------------------- helpers of the claims
UntagCalls == {i \in 1..Len(calls) : calls[i].op = "UntagResource"}

TagCalls == {i \in 1..Len(calls) : calls[i].op = "TagResource"}

FailedCalls == {i \in 1..Len(calls) : calls[i].err # "nil"}

\* the keys a TagResource input carries
SentKeys(c) == {t.Key : t \in c.Tags}

\* a key in the reserved namespace, spelled out character by character
IsAwsKey(k) ==
  /\ Len(k) >= 4
  /\ k[1] = "a" /\ k[2] = "w" /\ k[3] = "s" /\ k[4] = ":"

\* the invocation started with the remote tags equal to old and has
\* returned success
ConvergenceCase ==
  /\ pc = "done"
  /\ err = NoError
  /\ remoteAtCall = oldTagsMap

\* C1 as stated: after a successful UpdateTags(identifier, old, new) on a
\* resource whose tags were old, the remote tags are exactly new.
C1_ExactConvergence == ConvergenceCase => remote = newTagsMap

\* C1 (amended): after a successful UpdateTags(identifier, old, new) on a
\* resource whose tags were old, the remote tags agree with new on every key
\* without the aws: prefix, and every aws:-prefixed key is as it was in old.
C1_Convergence ==
  ConvergenceCase =>
    \A k \in Keys :
      IF IsAwsKey(k) THEN AgreeOn(remote, oldTagsMap, k)
                     ELSE AgreeOn(remote, newTagsMap, k)

C1_Witness ==
  /\ ConvergenceCase
  /\ Len(calls) = 2
  /\ \E k \in DOMAIN newTagsMap : ~IsAwsKey(k) /\ k \notin DOMAIN oldTagsMap
  /\ \E k \in DOMAIN oldTagsMap : IsAwsKey(k) /\ k \notin DOMAIN newTagsMap

\* C2: when old = new, UpdateTags issues no remote call and returns success.
C2_NoOpWhenEqual ==
  (pc # "idle" /\ oldTagsMap = newTagsMap) =>
    /\ calls = <<>>
    /\ pc = "done" => err = NoError

C2_Witness ==
  /\ pc = "done"
  /\ oldTagsMap = newTagsMap
  /\ Cardinality(DOMAIN oldTagsMap) >= 2

\* C3: when the UntagResource call fails, UpdateTags returns an untag-phase
\* error and makes no TagResource call, even if there are updated tags.
C3_UntagFailureAborts ==
  \A i \in UntagCalls :
    calls[i].err # "nil" =>
      /\ pc = "done"
      /\ TagCalls = {}
      /\ err # NoError
      /\ err.msg[1] = "error untagging resource ("

C3_Witness ==
  /\ pc = "done"
  /\ \E i \in UntagCalls : calls[i].err # "nil"
  /\ \E k \in DOMAIN newTagsMap :
       ~IsAwsKey(k) /\ k \in DOMAIN oldTagsMap /\ oldTagsMap[k] # newTagsMap[k]

\* C4: an invocation makes at most one UntagResource and at most one
\* TagResource call, a failed call is the last call of the invocation, and
\* when both calls are made the UntagResource call comes first.
C4_AtMostOneCallEach ==
  /\ Cardinality(UntagCalls) <= 1
  /\ Cardinality(TagCalls) <= 1
  /\ \A i \in FailedCalls : i = Len(calls) /\ pc = "done"
  /\ \A i \in UntagCalls, j \in TagCalls : i < j

C4_Witness ==
  /\ pc = "done"
  /\ UntagCalls # {}
  /\ TagCalls # {}
  /\ FailedCalls # {}

\* C5 as stated: the UntagResource call carries exactly keys(old) \ keys(new)
\* and the TagResource call exactly the pairs (k, v) of new with old[k] # v,
\* whatever the keys are.
C5_NoKeySpecialCase ==
  /\ \A i \in UntagCalls :
       calls[i].TagKeys = DOMAIN oldTagsMap \ DOMAIN newTagsMap
  /\ \A i \in TagCalls :
       calls[i].Tags =
         {[Key |-> k, Value |-> newTagsMap[k]] :
            k \in {x \in DOMAIN newTagsMap :
                     x \notin DOMAIN oldTagsMap \/ oldTagsMap[x] # newTagsMap[x]}}

\* C5 (amended): the UntagResource call carries exactly the keys of
\* keys(old) \ keys(new) without the aws: prefix, and the TagResource call
\* exactly the pairs (k, v) of new with old[k] # v whose key is without the
\* aws: prefix; no other key name is treated specially.
C5_OnlyAwsPrefixSpecial ==
  /\ \A i \in UntagCalls :
       calls[i].TagKeys =
         {k \in DOMAIN oldTagsMap \ DOMAIN newTagsMap : ~IsAwsKey(k)}
  /\ \A i \in TagCalls :
       calls[i].Tags =
         {[Key |-> k, Value |-> newTagsMap[k]] :
            k \in {x \in DOMAIN newTagsMap :
                     /\ ~IsAwsKey(x)
                     /\ x \notin DOMAIN oldTagsMap \/ oldTagsMap[x] # newTagsMap[x]}}

C5_Witness ==
  /\ Len(calls) = 2
  /\ \E k \in DOMAIN oldTagsMap \ DOMAIN newTagsMap : IsAwsKey(k)
  /\ \E k \in DOMAIN oldTagsMap \ DOMAIN newTagsMap : ~IsAwsKey(k)
  /\ \E k \in DOMAIN newTagsMap \ DOMAIN oldTagsMap : ~IsAwsKey(k)

\* a key held by old and new with the same value
Unchanged(k) ==
  /\ k \in DOMAIN oldTagsMap
  /\ k \in DOMAIN newTagsMap
  /\ oldTagsMap[k] = newTagsMap[k]

\* C6: a key present in old and new with the same value is never in the tags
\* sent to TagResource and never in the keys sent to UntagResource.
C6_UnchangedNeverSent ==
  \A k \in Keys :
    Unchanged(k) =>
      /\ \A i \in TagCalls : k \notin SentKeys(calls[i])
      /\ \A i \in UntagCalls : k \notin calls[i].TagKeys

C6_Witness ==
  /\ pc = "done"
  /\ \E k \in Keys : Unchanged(k) /\ ~IsAwsKey(k)
  /\ \E i \in TagCalls : calls[i].Tags # {}

\* C7 as stated: a key in old and absent from new is in the key list sent to
\* UntagResource and never in the tags sent to TagResource.
C7_RemovedKeyUntagged ==
  \A k \in DOMAIN oldTagsMap \ DOMAIN newTagsMap :
    /\ pc \in {"tag", "done"} => \E i \in UntagCalls : k \in calls[i].TagKeys
    /\ \A i \in TagCalls : k \notin SentKeys(calls[i])

\* C7 (amended): a key in old and absent from new that is without the aws:
\* prefix is in the key list sent to UntagResource, and no key in old and
\* absent from new is ever in the tags sent to TagResource.
C7_RemovedNonAwsKeyUntagged ==
  \A k \in DOMAIN oldTagsMap \ DOMAIN newTagsMap :
    /\ (~IsAwsKey(k) /\ pc \in {"tag", "done"}) =>
          \E i \in UntagCalls : k \in calls[i].TagKeys
    /\ \A i \in TagCalls : k \notin SentKeys(calls[i])

C7_Witness ==
  /\ pc = "done"
  /\ TagCalls # {}
  /\ \E k \in DOMAIN oldTagsMap \ DOMAIN newTagsMap :
       ~IsAwsKey(k) /\ \E i \in UntagCalls : k \in calls[i].TagKeys

\* a key whose value goes from non-empty in old to empty in new
Emptied(k) ==
  /\ k \in DOMAIN oldTagsMap
  /\ k \in DOMAIN newTagsMap
  /\ oldTagsMap[k] # ""
  /\ newTagsMap[k] = ""

\* the invocation has returned and no UntagResource call failed
PastUntag == pc = "done" /\ UntagCalls \cap FailedCalls = {}

\* C8 as stated: a key whose value goes from non-empty to empty is sent to
\* TagResource with the empty value and not sent to UntagResource; only keys
\* absent from new are sent to UntagResource.
C8_EmptiedIsUpdate ==
  /\ \A k \in Keys :
       Emptied(k) =>
         /\ PastUntag =>
              \E i \in TagCalls : [Key |-> k, Value |-> ""] \in calls[i].Tags
         /\ \A i \in UntagCalls : k \notin calls[i].TagKeys
  /\ \A i \in UntagCalls : calls[i].TagKeys \cap DOMAIN newTagsMap = {}

\* C8 (amended): a key without the aws: prefix whose value goes from
\* non-empty to empty is sent to TagResource with the empty value; no key
\* whose value goes from non-empty to empty is sent to UntagResource, and only
\* keys absent from new are sent to UntagResource.
C8_EmptiedNonAwsIsUpdate ==
  /\ \A k \in Keys :
       Emptied(k) =>
         /\ (~IsAwsKey(k) /\ PastUntag) =>
              \E i \in TagCalls : [Key |-> k, Value |-> ""] \in calls[i].Tags
         /\ \A i \in UntagCalls : k \notin calls[i].TagKeys
  /\ \A i \in UntagCalls : calls[i].TagKeys \cap DOMAIN newTagsMap = {}

C8_Witness ==
  /\ PastUntag
  /\ UntagCalls # {}
  /\ \E k \in Keys :
       /\ Emptied(k)
       /\ ~IsAwsKey(k)
       /\ \E i \in TagCalls : [Key |-> k, Value |-> ""] \in calls[i].Tags

\* the phase words of the two error messages
PhraseOf(op) ==
  IF op = "UntagResource" THEN "error untagging resource ("
                          ELSE "error tagging resource ("

\* C9: an error returned by UpdateTags names the phase of the failed call and
\* the identifier and wraps the remote error as it was returned; every failed
\* call is reported; after a TagResource failure that follows a successful
\* UntagResource the keys sent to UntagResource stay removed remotely.
C9_ErrorsNamePhase ==
  pc = "done" =>
    /\ err # NoError <=> FailedCalls # {}
    /\ \A i \in FailedCalls :
         /\ err.wrapped = calls[i].err
         /\ err.msg = <<PhraseOf(calls[i].op), identifier, "): ", calls[i].err>>
         /\ calls[i].ResourceARN = identifier
    /\ \A i \in UntagCalls, j \in TagCalls :
         calls[j].err # "nil" =>
           /\ err.msg[1] = "error tagging resource ("
           /\ calls[i].TagKeys \cap DOMAIN remote = {}
           /\ \A k \in DOMAIN remote : remote[k] = remoteAtCall[k]

C9_Witness ==
  /\ pc = "done"
  /\ \E i \in UntagCalls, j \in TagCalls :
       /\ calls[j].err # "nil"
       /\ calls[i].TagKeys \cap DOMAIN remoteAtCall # {}
       /\ calls[j].Tags # {}

\* C10: while an invocation runs, and when it returns, the maps passed as old
\* and new are as they were passed.
C10_InputsNotMutated ==
  [][(pc # "idle" /\ pc' # "idle") =>
       (oldTagsMap' = oldTagsMap /\ newTagsMap' = newTagsMap)]_vars

C10_Witness ==
  /\ pc = "done"
  /\ Len(calls) = 2
  /\ oldTagsMap # EmptyTags
  /\ newTagsMap # EmptyTags
  /\ oldTagsMap # newTagsMap
  /\ remote # remoteAtCall

\* ------------------------------------------------ claims on the poller
\* the probe results of the wait so far
ProbeCount == Len(probeLog)

\* the status field of a fetched object, whichever finder fetched it
StatusFieldOf(probe, out) ==
  IF probe = "DeliveryStream" THEN out.DeliveryStreamStatus ELSE out.Status

\* C11: a status probe returns (absent, "", nil) when the finder reports
\* not-found, (absent, "", err) for any other finder error, and the fetched
\* object with its status string and a nil error otherwise.
C11_ProbeResult ==
  \A i \in 1..ProbeCount :
    LET f == probeLog[i].found
        r == probeLog[i].result
    IN /\ f.err = "NotFoundError" => r = [snapshot |-> Absent, status |-> "", err |-> "nil"]
       /\ f.err \notin {"nil", "NotFoundError"} =>
            r = [snapshot |-> Absent, status |-> "", err |-> f.err]
       /\ f.err = "nil" =>
            /\ r.snapshot = f.output
            /\ r.err = "nil"
            /\ r.status = IF StatusFieldOf(pconf.probe, f.output) = NilString
                            THEN ""
                            ELSE StatusFieldOf(pconf.probe, f.output)
       /\ r.err # "NotFoundError"

C11_Witness ==
  /\ ProbeCount >= 3
  /\ probeLog[1].found.err = "NotFoundError"
  /\ probeLog[2].found.err = "nil"
  /\ probeLog[3].found.err = "ThrottlingException"

\* a probe result that keeps the poller pending: no error, a label that is
\* neither a target nor a failure label
PendingResult(r) ==
  /\ r.err = "nil"
  /\ r.status \notin TargetOf(pconf.probe)
  /\ r.status \notin FailureOf(pconf.probe)

TargetResult(r) == r.err = "nil" /\ r.status \in TargetOf(pconf.probe)

FailureResult(r) == r.err = "nil" /\ r.status \in FailureOf(pconf.probe)

\* the probe sequence Pending, Pending, Target has happened
PendingPendingTarget ==
  /\ ProbeCount >= 3
  /\ PendingResult(probeLog[1].result)
  /\ PendingResult(probeLog[2].result)
  /\ TargetResult(probeLog[3].result)

\* C12: after the probe sequence Pending, Pending, Target with snapshot S on
\* the third call the poller has returned S in state Target, and the third
\* probe is the last one.
C12_ThreeProbesThenTarget ==
  PendingPendingTarget =>
    /\ ProbeCount = 3
    /\ ppc = "done"
    /\ pstate = "Target"
    /\ presult.snapshot = probeLog[3].result.snapshot
    /\ presult.snapshot # Absent

C12_Witness == PendingPendingTarget /\ ppc = "done"

\* the probe sequence Pending, Failure label has happened
PendingFailure ==
  /\ ProbeCount >= 2
  /\ PendingResult(probeLog[1].result)
  /\ FailureResult(probeLog[2].result)

\* C13: after the probe sequence Pending, failure label the poller is in the
\* terminal state Failed and the second probe is the last one.
C13_TwoProbesThenFailed ==
  PendingFailure =>
    /\ ProbeCount = 2
    /\ ppc = "done"
    /\ pstate = "Failed"

C13_Witness == PendingFailure /\ ppc = "done"

\* every probe of the wait so far returned a pending status
AllPending == \A i \in 1..ProbeCount : PendingResult(probeLog[i].result)

\* C14: a wait whose probes all return a pending status ends, and it ends in
\* TimedOut with the elapsed time between the maximum duration and the
\* maximum duration plus one poll interval.
C14_TimedOutWithinOneInterval ==
  /\ [](ppc = "done" /\ AllPending =>
          /\ pstate = "TimedOut"
          /\ elapsed >= pconf.timeout
          /\ elapsed <= pconf.timeout + pconf.interval)
  /\ [](pstate = "TimedOut" => AllPending)
  /\ (ppc = "delay" ~> ppc = "done")

C14_Witness ==
  /\ ppc = "done"
  /\ pstate = "TimedOut"
  /\ ProbeCount >= 3
  /\ elapsed > pconf.timeout

\* C15: a finder error other than not-found makes the probe return that error
\* and the poller end in Failed on that probe with the error as its result;
\* no probe follows it.
C15_ProbeErrorFails ==
  \A i \in 1..ProbeCount :
    probeLog[i].found.err \notin {"nil", "NotFoundError"} =>
      /\ i = ProbeCount
      /\ ppc = "done"
      /\ pstate = "Failed"
      /\ presult.err = probeLog[i].found.err

C15_Witness ==
  /\ ProbeCount >= 2
  /\ PendingResult(probeLog[1].result)
  /\ probeLog[ProbeCount].found.err = "AccessDeniedException"
  /\ pstate = "Failed"

\* ------------------------------------------ claims on the resource handlers
\* the running handler has returned
Returned(op) == hpc = "done" /\ hcall.op = op

\* the entries of the handler's log that are calls of operation op
CallsOf(op) == {i \in 1..Len(hlog) : hlog[i].input.op = op}

\* a not-found response of the service's delete call
NotFoundResponse(svc, e) ==
  IF svc = "sagemaker"
    THEN /\ e.code = "ValidationException"
         /\ Len(e.msg) >= 1
         /\ e.msg[1] = "Could not find endpoint configuration"
    ELSE e.code = "ResourceNotFoundException"

\* C16: in both delete handlers a not-found response of the remote delete call
\* (or none) makes the handler return success, and any other error of the
\* call is returned to the caller.
C16_DeleteIdempotent ==
  Returned("delete") =>
    \A i \in CallsOf("Delete") :
      IF hlog[i].err = NilErr \/ NotFoundResponse(hcall.svc, hlog[i].err)
        THEN herr = NoHandlerError
        ELSE herr # NoHandlerError /\ herr.cause = hlog[i].err /\ herr.id = d.id

C16_Witness ==
  /\ Returned("delete")
  /\ hcall.svc = "sagemaker"
  /\ \E i \in CallsOf("Delete") : hlog[i].err = ErrSagemakerNotFound
  /\ herr = NoHandlerError

\* the (key, value) pairs a create call carries as tags
SentPairs(input) ==
  IF input.op = "CreateEndpointConfig"
    THEN {<<t.Key, t.Value>> : t \in input.Tags}
    ELSE {<<k, input.UserPoolTags[k]>> : k \in DOMAIN input.UserPoolTags}

\* the default tags merged with the resource's tags, the resource's value
\* taken for a key in both
MergedPairs ==
  {<<k, d.tags[k]>> : k \in DOMAIN d.tags}
  \cup {<<k, meta.defaults[k]>> : k \in DOMAIN meta.defaults \ DOMAIN d.tags}

CreateCalls == CallsOf("CreateEndpointConfig") \cup CallsOf("CreateUserPool")

\* C17 as stated: the tags sent with the remote create call are the provider
\* default tags merged with the resource's own tags, the resource-level value
\* for every key present in both.
C17_CreateSendsMergedTags ==
  \A i \in CreateCalls : SentPairs(hlog[i].input) = MergedPairs

\* C17 (amended): the tags sent with the remote create call are the provider
\* default tags merged with the resource's own tags, the resource-level value
\* for every key present in both, without the keys that have the aws: prefix.
C17_CreateSendsMergedNonAwsTags ==
  \A i \in CreateCalls :
    SentPairs(hlog[i].input) = {kv \in MergedPairs : ~IsAwsKey(kv[1])}

C17_Witness ==
  /\ CreateCalls # {}
  /\ \E k \in DOMAIN d.tags \cap DOMAIN meta.defaults :
       /\ ~IsAwsKey(k)
       /\ d.tags[k] # meta.defaults[k]
       /\ \A i \in CreateCalls : <<k, d.tags[k]>> \in SentPairs(hlog[i].input)
  /\ \E k \in DOMAIN d.tags : IsAwsKey(k)

\* a key the ignore configuration names, by key or by prefix
Ignored(k) ==
  \/ k \in meta.ignore.Keys
  \/ \E pre \in meta.ignore.KeyPrefixes :
       /\ Len(k) >= Len(pre)
       /\ \A j \in 1..Len(pre) : k[j] = pre[j]

\* the calls of the log that returned the remote tags
TagReads ==
  {i \in CallsOf("ListTags") \cup CallsOf("DescribeUserPool") : hlog[i].err = NilErr}

\* the handler has returned success, with the resource found
ReadSucceeded ==
  /\ hpc = "done"
  /\ hcall.op \in {"read", "create"}
  /\ herr = NoHandlerError
  /\ d.id # ""

\* C18: after a successful Read that found the resource, tags_all holds the
\* remote tags except the aws:-prefixed and the ignore-configured ones, tags is
\* tags_all without the entries that are provider default tags, and every
\* (key, value) of tags is in tags_all.
C18_ReadSetsTags ==
  ReadSucceeded =>
    /\ TagReads # {}
    /\ \A i \in TagReads :
         LET rt == hlog[i].tags
             kept == {k \in DOMAIN rt : ~IsAwsKey(k) /\ ~Ignored(k)}
         IN /\ DOMAIN d.st_tags_all = kept
            /\ \A k \in kept : d.st_tags_all[k] = rt[k]
            /\ DOMAIN d.st_tags =
                 {k \in kept : ~(k \in DOMAIN meta.defaults /\ meta.defaults[k] = rt[k])}
    /\ \A k \in DOMAIN d.st_tags :
         k \in DOMAIN d.st_tags_all /\ d.st_tags[k] = d.st_tags_all[k]

C18_Witness ==
  /\ ReadSucceeded
  /\ hcall.op = "read"
  /\ \E i \in TagReads :
       /\ \E k \in DOMAIN hlog[i].tags : IsAwsKey(k)
       /\ \E k \in DOMAIN hlog[i].tags : Ignored(k) /\ ~IsAwsKey(k)
  /\ d.st_tags # d.st_tags_all

\* a describe call of the log that shows its resource not destroyed
NotDestroyed(v) ==
  IF v.err # NilErr
    THEN v.err.code # "ValidationException"
    ELSE /\ v.out # NilOutput
         /\ v.out.NotebookInstanceLifecycleConfigName = v.rs.ID

\* C19: the destroy check fails if and only if a describe call it made for a
\* lifecycle configuration left in state returned that name or an error
\* other than a ValidationException; a ValidationException counts as
\* destroyed, and a check that passes has described every lifecycle
\* configuration of the state and none of the other resources.
C19_DestroyCheckVerdict ==
  dspc = "done" =>
    /\ dserr # NoHandlerError <=> \E i \in 1..Len(dslog) : NotDestroyed(dslog[i])
    /\ \A i \in 1..Len(dslog) :
         /\ dslog[i].rs \in dsstate
         /\ dslog[i].rs.Type = LifecycleConfigurationType
         /\ NotDestroyed(dslog[i]) =>
              /\ i = Len(dslog)
              /\ IF dslog[i].err # NilErr
                   THEN dserr.cause = dslog[i].err
                   ELSE dserr.id = dslog[i].rs.ID
    /\ dserr = NoHandlerError =>
         {dslog[i].rs : i \in 1..Len(dslog)} =
           {rs \in dsstate : rs.Type = LifecycleConfigurationType}

C19_Witness ==
  /\ dspc = "done"
  /\ Len(dslog) = 2
  /\ dslog[1].err = ErrLifecycleValidation
  /\ dslog[2].err = ErrThrottling
  /\ dserr.cause = ErrThrottling

\* C20: UpdateTags never issues an UntagResource call with an empty key list
\* nor a TagResource call with an empty tag list.
C20_NoEmptyCalls ==
  /\ \A i \in UntagCalls : calls[i].TagKeys # {}
  /\ \A i \in TagCalls : calls[i].Tags # {}

\* the handler that is running or has returned is one that ends with Read
Reading == hcall.op \in {"read", "create", "update"}

\* C21: in the SageMaker endpoint configuration Read a not-found result of
\* the finder clears the ID and returns success when the resource is not
\* newly created, returns an error with the ID kept when it is newly created,
\* and any other finder error returns an error with the ID kept.
C21_SagemakerReadNotFound ==
  (hpc = "done" /\ hcall.svc = "sagemaker" /\ Reading) =>
    \A i \in CallsOf("EndpointConfigByName") :
      LET e == hlog[i].err
          found == hlog[i].input.name
      IN /\ (e.code = "NotFoundError" /\ hcall.op # "create") =>
              (d.id = "" /\ herr = NoHandlerError)
         /\ (e.code = "NotFoundError" /\ hcall.op = "create") =>
              (d.id = found /\ herr # NoHandlerError /\ herr.cause = e)
         /\ (e # NilErr /\ e.code # "NotFoundError") =>
              (d.id = found /\ herr # NoHandlerError /\ herr.cause = e)

C21_Witness ==
  /\ hpc = "done"
  /\ hcall.svc = "sagemaker"
  /\ hcall.op = "create"
  /\ \E i \in CallsOf("EndpointConfigByName") : hlog[i].err.code = "NotFoundError"
  /\ d.id # ""
  /\ herr # NoHandlerError

\* the describing calls of the Cognito Read
CognitoReadCalls == CallsOf("DescribeUserPool") \cup CallsOf("GetUserPoolMfaConfig")

\* C22: in the Cognito user pool Read a ResourceNotFoundException of
\* DescribeUserPool or of GetUserPoolMfaConfig clears the ID and returns
\* success, also right after Create; any other error of either call is
\* returned with the ID unchanged.
C22_CognitoReadNotFound ==
  (hpc = "done" /\ hcall.svc = "cognito" /\ Reading) =>
    \A i \in CognitoReadCalls :
      LET e == hlog[i].err
      IN /\ e.code = "ResourceNotFoundException" =>
              (d.id = "" /\ herr = NoHandlerError)
         /\ (e # NilErr /\ e.code # "ResourceNotFoundException") =>
              (d.id = hlog[i].input.name /\ d.id # ""
               /\ herr # NoHandlerError /\ herr.cause = e)

C22_Witness ==
  /\ hpc = "done"
  /\ hcall.svc = "cognito"
  /\ hcall.op = "create"
  /\ \E i \in CallsOf("GetUserPoolMfaConfig") :
       hlog[i].err.code = "ResourceNotFoundException"
  /\ d.id = ""
  /\ herr = NoHandlerError

\* the calls of the log that create the remote resource, and the successful ones
CreatedBy == {i \in CreateCalls : hlog[i].err = NilErr}

\* the last entry of the log
LastCall == hlog[Len(hlog)]

\* C23: in both create handlers the ID is set only after the remote create
\* call has succeeded; a failed create returns an error with the ID empty,
\* and in Cognito a failure of SetUserPoolMfaConfig returns an error with the
\* ID set to the created pool's.
C23_IdSetAfterCreate ==
  hcall.op = "create" =>
    /\ (hpc # "idle" /\ CreatedBy = {}) => d.id = ""
    /\ (hpc = "done" /\ CreatedBy = {}) => herr # NoHandlerError
    /\ (hpc = "done" /\ hlog # <<>> /\ LastCall.input.op = "SetUserPoolMfaConfig"
          /\ LastCall.err # NilErr) =>
         /\ herr # NoHandlerError
         /\ herr.cause = LastCall.err
         /\ d.id = IdOf("cognito")
         /\ CreatedBy # {}

C23_Witness ==
  /\ hcall.op = "create"
  /\ hpc = "done"
  /\ hlog # <<>>
  /\ LastCall.input.op = "SetUserPoolMfaConfig"
  /\ LastCall.err = ErrInvalidParameter
  /\ d.id # ""
  /\ herr # NoHandlerError

\* -------------------------------------------------- claims on the updates
\* the remote calls the Cognito handlers make inside resource.Retry
RetriedOps == {"CreateUserPool", "SetUserPoolMfaConfig", "UpdateUserPool"}

\* the entry of the log is the timeout of a retry window
IsTimeout(i) == hlog[i].input.op = "resource.Retry"

\* the errors on which a call of op is made again
RetriedOn(op, e) ==
  \/ e.code \in {"InvalidSmsRoleTrustRelationshipException",
                "InvalidSmsRoleAccessPolicyException"}
  \/ /\ op = "UpdateUserPool"
     /\ e.code = "InvalidParameterException"
     /\ e.msg = <<"Please use TemporaryPasswordValidityDays in PasswordPolicy instead of UnusedAccountValidityDays">>

MfaCalls == CallsOf("SetUserPoolMfaConfig")

\* C25: SMS MFA settings are never sent while MFA is off.  Create, once the
\* pool is created, calls SetUserPoolMfaConfig if and only if
\* mfa_configuration is not OFF; a SetUserPoolMfaConfig call of Update carries
\* SmsMfaConfiguration only when an sms_configuration is present and
\* mfa_configuration is not OFF.
C25_NoSmsMfaWhileOff ==
  /\ \A i \in MfaCalls :
       hlog[i].input.SmsMfaConfiguration =>
         (d.sms /\ d.mfa # "OFF" /\ hlog[i].input.MfaConfiguration # "OFF")
  /\ hcall.op = "create" =>
       /\ MfaCalls # {} => (d.mfa # "OFF" /\ CreatedBy # {})
       /\ (hpc = "done" /\ CreatedBy # {} /\ d.mfa # "OFF") => MfaCalls # {}

C25_Witness ==
  /\ Returned("update")
  /\ d.sms
  /\ d.mfa = "OFF"
  /\ MfaCalls # {}
  /\ \A i \in MfaCalls : ~hlog[i].input.SmsMfaConfiguration
  /\ herr = NoHandlerError

AddCalls == CallsOf("AddCustomAttributes")

SchemaRejected ==
  herr.text = "error updating Cognito User Pool: cannot modify or remove schema items"

\* the Update has changed the schema
SchemaUpdate ==
  Returned("update") /\ hcall.svc = "cognito" /\ hcall.prior.schema # d.schema

\* C26 as stated: when the schema changed and every old item is in the new
\* set, AddCustomAttributes is called once with the items of new not in old;
\* when an old item is missing, Update returns the "cannot modify or remove
\* schema items" error and AddCustomAttributes is never called.
C26_SchemaAddOnly ==
  SchemaUpdate =>
    IF hcall.prior.schema \subseteq d.schema
      THEN /\ Cardinality(AddCalls) = 1
           /\ \A i \in AddCalls :
                hlog[i].input.CustomAttributes = d.schema \ hcall.prior.schema
      ELSE SchemaRejected /\ AddCalls = {}

\* a SetUserPoolMfaConfig or UpdateUserPool call of the handler ended it
EarlierStepFailed ==
  /\ hlog # <<>>
  /\ LastCall.input.op \in {"SetUserPoolMfaConfig", "UpdateUserPool"}
  /\ LastCall.err # NilErr

\* C26 (amended): when the schema changed and neither the SetUserPoolMfaConfig
\* nor the UpdateUserPool step of the Update failed: if every old item is in
\* the new set, AddCustomAttributes is called once with the items of new not
\* in old, and if an old item is missing Update returns the "cannot modify or
\* remove schema items" error.  AddCustomAttributes is never called when an
\* old item is missing, nor after a failed step.
C26_SchemaAddOnlyOnceReached ==
  SchemaUpdate =>
    /\ ~EarlierStepFailed =>
         IF hcall.prior.schema \subseteq d.schema
           THEN /\ Cardinality(AddCalls) = 1
                /\ \A i \in AddCalls :
                     hlog[i].input.CustomAttributes = d.schema \ hcall.prior.schema
           ELSE SchemaRejected
    /\ ~(hcall.prior.schema \subseteq d.schema) => AddCalls = {}
    /\ EarlierStepFailed => (AddCalls = {} /\ ~SchemaRejected)

C26_Witness ==
  /\ SchemaUpdate
  /\ hcall.prior.schema # {}
  /\ hcall.prior.schema \subseteq d.schema
  /\ \E i \in AddCalls :
       /\ hlog[i].input.CustomAttributes = d.schema \ hcall.prior.schema
       /\ hlog[i].err = NilErr
  /\ herr = NoHandlerError

\* C27: when a Cognito update is rejected for modifying or removing schema
\* items, no SetUserPoolMfaConfig and no UpdateUserPool call has been made by
\* that Update.
C27_RejectedUpdateCallsNothing ==
  (Returned("update") /\ SchemaRejected) =>
    MfaCalls \cup CallsOf("UpdateUserPool") = {}

\* tags_all of the configuration: the default tags overlaid with the tags
ConfiguredTagsAll ==
  [k \in DOMAIN meta.defaults \cup DOMAIN d.tags |->
     IF k \in DOMAIN d.tags THEN d.tags[k] ELSE meta.defaults[k]]

ReconcilerCalls == CallsOf("UpdateTags")

\* C28: the SageMaker endpoint configuration Update calls the tag reconciler
\* if and only if tags_all changed, with the ARN and the old and new tags_all;
\* it makes no other mutating remote call, returns the reconciler's error
\* without running Read, and otherwise finishes with Read.
C28_SagemakerUpdate ==
  (hcall.op = "update" /\ hcall.svc = "sagemaker") =>
    /\ hpc # "sm_update" =>
         (ReconcilerCalls # {} <=> hcall.prior.tags_all # ConfiguredTagsAll)
    /\ \A i \in ReconcilerCalls :
         /\ i = 1
         /\ hlog[i].input.identifier = d.arn
         /\ d.arn # ""
         /\ hlog[i].input.oldTags = hcall.prior.tags_all
         /\ hlog[i].input.newTags = ConfiguredTagsAll
         /\ hlog[i].err # NilErr =>
              (Len(hlog) = 1 /\ hpc = "done" /\ herr # NoHandlerError
               /\ herr.cause = hlog[i].err)
    /\ \A i \in 1..Len(hlog) :
         hlog[i].input.op \in {"UpdateTags", "EndpointConfigByName", "ListTags"}
    /\ (hpc = "done" /\ \A i \in ReconcilerCalls : hlog[i].err = NilErr) =>
         CallsOf("EndpointConfigByName") # {}

C28_Witness ==
  /\ Returned("update")
  /\ hcall.svc = "sagemaker"
  /\ hcall.prior.tags_all # EmptyTags
  /\ d.tags # EmptyTags
  /\ \E i \in ReconcilerCalls : hlog[i].err = NilErr
  /\ d.st_tags_all = ConfiguredTagsAll
  /\ herr = NoHandlerError

====
